---- MODULE Spec2Model ----
(***************************************************************************)
(* The self-correcting SQL query agent (sql_query_agent): the LangGraph    *)
(* workflow parse_intent -> generate_sql -> validate_sql -> execute_sql -> *)
(* analyze_error / format_results / ask_clarification, with the state dict *)
(* the graph engine threads through the nodes.                             *)
(*                                                                         *)
(* Texts.  A Python str is a sequence of glyphs.  Text that comes from     *)
(* outside the program (the model's reply, the engine's error message) and *)
(* is inspected by the program is written one character per glyph.  A      *)
(* string literal of the program that is only concatenated is one glyph    *)
(* (none of them contains a keyword any node searches for).                *)
(*                                                                         *)
(* Optional values.  None is <<>> and a present value v is <<v>>.          *)
(***************************************************************************)
EXTENDS Integers, Sequences, FiniteSets, TLC

\* ------------------------------------------------------------------ bounds

\* The graph engine's budget of node executions for one run (the engine stops a
\* run that needs more by raising; the engine's own default is larger).
RecursionLimit == 14

\* The largest max_attempts a caller supplies (the UI slider starts at 1).
MaxCallerAttempts == 2

\* The largest attempt a caller supplies in the initial state.
MaxStartAttempt == 2

\* The largest number of rows the database returns for a query.
MaxRows == 3

\* How many calls of validate in a row are followed.
MaxCalls == 3

\* How many calls of ErrorAnalyzer.analyze_error in a row are followed.
MaxAnalyses == 2

\* How many calls of ResultFormatter.format_results in a row are followed.
MaxFormats == 2

\* ------------------------------------------------------------------- texts

None == <<>>

Some(v) == <<v>>

LowerLetters ==
    <<"a","b","c","d","e","f","g","h","i","j","k","l","m",
      "n","o","p","q","r","s","t","u","v","w","x","y","z">>

UpperLetters ==
    <<"A","B","C","D","E","F","G","H","I","J","K","L","M",
      "N","O","P","Q","R","S","T","U","V","W","X","Y","Z">>

Digits == <<"0","1","2","3","4","5","6","7","8","9">>

Whitespace == {" ", "\n", "\t"}

\* str.upper(), glyph by glyph.
UpperOf ==
    [c \in {LowerLetters[i] : i \in 1..26} |->
        UpperLetters[CHOOSE i \in 1..26 : LowerLetters[i] = c]]

UpperChar(c) == IF c \in DOMAIN UpperOf THEN UpperOf[c] ELSE c

Upper(t) == [i \in 1..Len(t) |-> UpperChar(t[i])]

\* str.lower(), glyph by glyph.
LowerOf ==
    [c \in {UpperLetters[i] : i \in 1..26} |->
        LowerLetters[CHOOSE i \in 1..26 : UpperLetters[i] = c]]

LowerChar(c) == IF c \in DOMAIN LowerOf THEN LowerOf[c] ELSE c

Lower(t) == [i \in 1..Len(t) |-> LowerChar(t[i])]

\* pat in t
Contains(t, pat) ==
    LET s == t
    IN  \E i \in 0..(Len(s) - Len(pat)) :
            \A j \in 1..Len(pat) : s[i + j] = pat[j]

\* t.startswith(pat)
StartsWith(t, pat) ==
    /\ Len(pat) <= Len(t)
    /\ SubSeq(t, 1, Len(pat)) = pat

\* t.strip()
Strip(t) ==
    LET keep == {i \in 1..Len(t) : t[i] \notin Whitespace}
    IN  IF keep = {} THEN <<>>
        ELSE LET lo == CHOOSE i \in keep : \A j \in keep : i <= j
                 hi == CHOOSE i \in keep : \A j \in keep : j <= i
             IN  SubSeq(t, lo, hi)

\* t.replace(pat, ""), for a non-empty pat: every occurrence, left to right.
RECURSIVE Remove(_, _)
Remove(t, pat) ==
    IF Len(t) < Len(pat) THEN t
    ELSE IF SubSeq(t, 1, Len(pat)) = pat
         THEN Remove(SubSeq(t, Len(pat) + 1, Len(t)), pat)
         ELSE <<t[1]>> \o Remove(Tail(t), pat)

\* str(n) for n >= 0
RECURSIVE IntToText(_)
IntToText(n) ==
    IF n < 10 THEN <<Digits[n + 1]>>
    ELSE IntToText(n \div 10) \o <<Digits[(n % 10) + 1]>>

\* "\n".join-free enumeration helper: the concatenation of a sequence of texts.
RECURSIVE Concat(_)
Concat(ts) == IF ts = <<>> THEN <<>> ELSE Head(ts) \o Concat(Tail(ts))

\* \w of the regular expressions: a letter, a digit or the underscore.
IsWordChar(c) ==
    \/ \E i \in 1..26 : LowerLetters[i] = c \/ UpperLetters[i] = c
    \/ \E i \in 1..10 : Digits[i] = c
    \/ c = "_"

\* ---------------------------------------------------------------- validator

\* SQLValidator.dangerous_keywords, in the order of the list.
dangerous_keywords ==
    << <<"D","R","O","P">>,
       <<"D","E","L","E","T","E">>,
       <<"T","R","U","N","C","A","T","E">>,
       <<"A","L","T","E","R">>,
       <<"C","R","E","A","T","E">>,
       <<"I","N","S","E","R","T">>,
       <<"U","P","D","A","T","E">>,
       <<"G","R","A","N","T">>,
       <<"R","E","V","O","K","E">>,
       <<"E","X","E","C">>,
       <<"E","X","E","C","U","T","E">> >>

SELECT == <<"S","E","L","E","C","T">>

UNKNOWN == <<"U","N","K","N","O","W","N">>

\* The first token of a text that begins, after whitespace, with a word or with
\* punctuation: its leading run of word characters, upper-cased.
FirstWord(t) ==
    LET s    == Upper(Strip(t))
        stop == {i \in 1..Len(s) : ~IsWordChar(s[i])}
        end  == IF stop = {} THEN Len(s)
                ELSE (CHOOSE i \in stop : \A j \in stop : i <= j) - 1
    IN  SubSeq(s, 1, end)

\* The DML keywords of sqlparse that are not on the denylist.
OtherDML == { <<"R","E","P","L","A","C","E">>, <<"M","E","R","G","E">> }

\* sqlparse's Statement.get_type() of the first parsed statement, for a text
\* without comments and without a WITH clause: the DML/DDL keyword that is its
\* first token, "UNKNOWN" for anything else.  The keywords of the denylist
\* never get here.
get_type(t) ==
    IF FirstWord(t) = SELECT THEN SELECT
    ELSE IF FirstWord(t) \in OtherDML THEN FirstWord(t)
    ELSE UNKNOWN

\* validate looking at the statement type first and accepting every SELECT.
validate_SelectFirst(sql_query) ==
    IF sql_query = <<>> \/ Strip(sql_query) = <<>>
    THEN [is_valid |-> FALSE, error |-> <<"Empty query">>]
    ELSE LET sql_upper == Upper(sql_query)
             hits == {k \in 1..Len(dangerous_keywords) :
                         Contains(sql_upper, dangerous_keywords[k])}
         IN  IF get_type(sql_query) = SELECT
             THEN [is_valid |-> TRUE, error |-> <<>>]
             ELSE IF hits # {}
             THEN LET k == CHOOSE k \in hits : \A j \in hits : k <= j
                  IN  [is_valid |-> FALSE,
                       error |-> <<"Dangerous operation detected: ">>
                                 \o dangerous_keywords[k]
                                 \o <<". Only SELECT queries are allowed.">>]
             ELSE [is_valid |-> FALSE,
                   error |-> <<"Only SELECT queries are allowed. Found: ">>
                             \o get_type(sql_query)]

\* SQLValidator.validate: (is_valid, error_message).
validate(sql_query) ==
    IF sql_query = <<>> \/ Strip(sql_query) = <<>>
    THEN [is_valid |-> FALSE, error |-> <<"Empty query">>]
    ELSE LET sql_upper == Upper(sql_query)
             hits == {k \in 1..Len(dangerous_keywords) :
                         Contains(sql_upper, dangerous_keywords[k])}
         IN  IF hits # {}
             THEN LET k == CHOOSE k \in hits : \A j \in hits : k <= j
                  IN  [is_valid |-> FALSE,
                       error |-> <<"Dangerous operation detected: ">>
                                 \o dangerous_keywords[k]
                                 \o <<". Only SELECT queries are allowed.">>]
             ELSE IF get_type(sql_query) # SELECT
                  THEN [is_valid |-> FALSE,
                        error |-> <<"Only SELECT queries are allowed. Found: ">>
                                  \o get_type(sql_query)]
                  ELSE [is_valid |-> TRUE, error |-> <<>>]

\* ----------------------------------------------------------- error analyzer

\* The keywords of ErrorAnalyzer, one character per glyph.
KwNoSuchTable    == <<"n","o"," ","s","u","c","h"," ","t","a","b","l","e">>
KwNoSuchColumn   == <<"n","o"," ","s","u","c","h"," ","c","o","l","u","m","n">>
KwNoSuchFunction == <<"n","o"," ","s","u","c","h"," ","f","u","n","c","t","i","o","n">>
KwSyntaxError    == <<"s","y","n","t","a","x"," ","e","r","r","o","r">>
KwAmbiguous      == <<"a","m","b","i","g","u","o","u","s"," ","c","o","l","u","m","n">>
KwDatatype       == <<"d","a","t","a","t","y","p","e"," ","m","i","s","m","a","t","c","h">>
KwTypeMismatch   == <<"t","y","p","e"," ","m","i","s","m","a","t","c","h">>
KwConstraint     == <<"c","o","n","s","t","r","a","i","n","t">>
KwFunction       == <<"f","u","n","c","t","i","o","n">>
KwDoesNotExist   == <<"d","o","e","s"," ","n","o","t"," ","e","x","i","s","t">>

\* _classify_error testing for "no such column" before "no such table".
classify_error_ColumnFirst(error) ==
    LET error_lower == Lower(error)
    IN  IF Contains(error_lower, KwNoSuchColumn) THEN "COLUMN_NOT_FOUND"
        ELSE IF Contains(error_lower, KwNoSuchTable) THEN "TABLE_NOT_FOUND"
        ELSE IF Contains(error_lower, KwSyntaxError) THEN "SYNTAX_ERROR"
        ELSE IF Contains(error_lower, KwAmbiguous) THEN "AMBIGUOUS_COLUMN"
        ELSE IF Contains(error_lower, KwDatatype)
                \/ Contains(error_lower, KwTypeMismatch) THEN "TYPE_MISMATCH"
        ELSE IF Contains(error_lower, KwConstraint) THEN "CONSTRAINT_VIOLATION"
        ELSE IF Contains(error_lower, KwFunction)
                /\ Contains(error_lower, KwDoesNotExist) THEN "FUNCTION_NOT_SUPPORTED"
        ELSE "UNKNOWN_ERROR"

\* ErrorAnalyzer._classify_error
classify_error(error) ==
    LET error_lower == Lower(error)
    IN  IF Contains(error_lower, KwNoSuchTable) THEN "TABLE_NOT_FOUND"
        ELSE IF Contains(error_lower, KwNoSuchColumn) THEN "COLUMN_NOT_FOUND"
        ELSE IF Contains(error_lower, KwSyntaxError) THEN "SYNTAX_ERROR"
        ELSE IF Contains(error_lower, KwAmbiguous) THEN "AMBIGUOUS_COLUMN"
        ELSE IF Contains(error_lower, KwDatatype)
                \/ Contains(error_lower, KwTypeMismatch) THEN "TYPE_MISMATCH"
        ELSE IF Contains(error_lower, KwConstraint) THEN "CONSTRAINT_VIOLATION"
        ELSE IF Contains(error_lower, KwFunction)
                /\ Contains(error_lower, KwDoesNotExist) THEN "FUNCTION_NOT_SUPPORTED"
        ELSE "UNKNOWN_ERROR"

\* The suggestions dict of ErrorAnalyzer._suggest_fix, in insertion order.
suggestions ==
    << [key |-> KwNoSuchTable,
        fix |-> "Verify the table name exists in the database schema. Check for typos or case sensitivity."],
       [key |-> KwNoSuchColumn,
        fix |-> "Check that the column name is spelled correctly and exists in the specified table."],
       [key |-> KwSyntaxError,
        fix |-> "Review SQL syntax. Common issues: missing commas, incorrect keyword order, or unmatched parentheses."],
       [key |-> KwAmbiguous,
        fix |-> "Prefix column names with table names or aliases to clarify which table the column belongs to."],
       [key |-> KwDatatype,
        fix |-> "Ensure data types match between compared values. Cast values if necessary."],
       [key |-> KwTypeMismatch,
        fix |-> "Ensure data types match between compared values. Cast values if necessary."],
       [key |-> KwConstraint,
        fix |-> "Check for constraint violations like NOT NULL, UNIQUE, or FOREIGN KEY constraints."],
       [key |-> KwFunction,
        fix |-> "The function may not be supported in this database. Check database-specific function syntax (e.g., SQLite vs PostgreSQL)."] >>

\* ErrorAnalyzer._suggest_fix
suggest_fix(error) ==
    LET error_lower == Lower(error)
        hits == {k \in 1..Len(suggestions) : Contains(error_lower, suggestions[k].key)}
    IN  IF hits # {}
        THEN suggestions[CHOOSE k \in hits : \A j \in hits : k <= j].fix
        ELSE "Review the error message and SQL query carefully. Consult database documentation if needed."

\* ErrorAnalyzer.analyze_error
analyze_error_fn(error, sql_query) ==
    [error_type        |-> classify_error(error),
     error_message     |-> error,
     suggested_fix     |-> suggest_fix(error),
     problematic_query |-> sql_query]

\* re.search(kw + r":\s*(\w+)", error, re.IGNORECASE): group(1) of the
\* leftmost match, as an optional text.
SearchName(error, kw) ==
    LET pat  == kw \o <<":">>
        low  == Lower(error)
        n    == Len(error)
        \* the first index after position i that holds no whitespace
        After(i) == LET rest == {j \in i..n : error[j] \notin Whitespace}
                    IN  IF rest = {} THEN n + 1
                        ELSE CHOOSE j \in rest : \A k \in rest : j <= k
        starts == {i \in 1..(n - Len(pat) + 1) :
                      /\ SubSeq(low, i, i + Len(pat) - 1) = pat
                      /\ After(i + Len(pat)) <= n
                      /\ IsWordChar(error[After(i + Len(pat))])}
    IN  IF starts = {} THEN None
        ELSE LET i  == CHOOSE i \in starts : \A j \in starts : i <= j
                 b  == After(i + Len(pat))
                 nw == {j \in b..n : ~IsWordChar(error[j])}
                 e  == IF nw = {} THEN n
                       ELSE (CHOOSE j \in nw : \A k \in nw : j <= k) - 1
             IN  Some(SubSeq(error, b, e))

\* ErrorAnalyzer.extract_problem_area: an optional text.
extract_problem_area(error, sql_query) ==
    IF SearchName(error, KwNoSuchTable) # None
    THEN Some(<<"Table: ">> \o SearchName(error, KwNoSuchTable)[1])
    ELSE IF SearchName(error, KwNoSuchColumn) # None
    THEN Some(<<"Column: ">> \o SearchName(error, KwNoSuchColumn)[1])
    ELSE IF SearchName(error, KwNoSuchFunction) # None
    THEN Some(<<"Function: ">> \o SearchName(error, KwNoSuchFunction)[1])
    ELSE None

\* --------------------------------------------------------- result formatter

Min(a, b) == IF a < b THEN a ELSE b

\* Python truth of an optional int: None and 0 are false.
TruthyInt(opt) == opt # None /\ opt[1] # 0

\* ResultFormatter._create_summary_message
create_summary_message(row_count, truncated, max_rows) ==
    IF row_count = 0 THEN <<"Query executed successfully but returned no results.">>
    ELSE IF row_count = 1 THEN <<"Query returned 1 row.">>
    ELSE IF truncated
         THEN <<"Query returned ">> \o IntToText(row_count)
              \o <<" rows. Displaying first ">> \o IntToText(max_rows[1]) \o <<" rows.">>
         ELSE <<"Query returned ">> \o IntToText(row_count) \o <<" rows.">>

\* The keys of the rows in the order of their first appearance (DataFrame.columns
\* of rows that all carry the same keys).
RECURSIVE Dedup(_)
Dedup(cols) ==
    IF cols = <<>> THEN <<>>
    ELSE LET init == Dedup(SubSeq(cols, 1, Len(cols) - 1))
             c    == cols[Len(cols)]
         IN  IF \E i \in 1..Len(init) : init[i] = c THEN init ELSE Append(init, c)

\* ResultFormatter.format_results; results are rows as dicts, keys is the key
\* order of those dicts, max_rows an optional int.  The pandas frame is
\* represented by the rows it shows.
format_results_fn(results, keys, query, max_rows) ==
    IF results = <<>>
    THEN [success   |-> TRUE,
          row_count |-> 0,
          message   |-> <<"Query executed successfully but returned no results.">>,
          data      |-> <<>>,
          dataframe |-> None]
    ELSE LET truncated == TruthyInt(max_rows) /\ Len(results) > max_rows[1]
         IN  [success      |-> TRUE,
              row_count    |-> Len(results),
              column_count |-> Len(keys),
              columns      |-> keys,
              data         |-> IF ~TruthyInt(max_rows) THEN results
                               ELSE SubSeq(results, 1, Min(Len(results), max_rows[1])),
              dataframe    |-> Some(IF truncated
                                    THEN SubSeq(results, 1, max_rows[1])
                                    ELSE results),
              truncated    |-> truncated,
              message      |-> create_summary_message(Len(results), truncated, max_rows)]

\* ------------------------------------------------------------ environment

\* The questions a caller asks.
UserQueries == { <<"Show me all customers">> }

\* SQLExecutor.db_path and SchemaAnalyzer.db_path of the workflow.
db_path == <<"data/ecommerce.sqlite">>

\* The markdown code fence, three backquotes, as one glyph.
Fence == "<fence>"

\* What the chat model replies to a prompt (response.content).
Responses ==
    { <<"S","E","L","E","C","T"," ","1">>,
      <<Fence,"s","q","l","\n","S","E","L","E","C","T"," ","1","\n",Fence>>,
      <<"d","r","o","p"," ","t">>,
      <<" ">> }

\* What sqlite answers to a statement on an existing database: the rows, an
\* sqlite3.Error, or another exception.
ResultSets ==
    { [kind |-> "rows", columns |-> <<"id">>, rows |-> [i \in 1..n |-> <<i>>]] :
        n \in 0..MaxRows }

SqliteErrors ==
    { [kind |-> "sqlite_error",
       msg  |-> <<"n","o"," ","s","u","c","h"," ","t","a","b","l","e",":"," ","t">>],
      [kind |-> "sqlite_error",
       msg  |-> <<"n","o"," ","s","u","c","h"," ","f","u","n","c","t","i","o","n",":"," ","f">>] }

\* Any other exception raised inside execute's try block.
OtherErrors ==
    { [kind |-> "error",
       msg  |-> <<"You can only execute one statement at a time.">>] }

\* The statement is one that changes the database: what becomes of it depends
\* on the mode of the session.
WriteAttempts == { [kind |-> "write"] }

EngineOutcomes == ResultSets \cup SqliteErrors \cup OtherErrors \cup WriteAttempts

\* The database a workflow is created for, and another one.
other_db_path == <<"data/other.sqlite">>

DbPaths == {db_path, other_db_path}

\* The schema SchemaAnalyzer reads from an existing database.
SeededSchema ==
    << [table   |-> "customers",
        columns |-> << [name |-> "customer_id", type |-> "INTEGER",
                        not_null |-> FALSE, primary_key |-> TRUE],
                       [name |-> "name", type |-> "TEXT",
                        not_null |-> TRUE, primary_key |-> FALSE] >>] >>

EmptySchema == <<>>

\* --------------------------------------------------------------- the tools

\* SchemaAnalyzer.get_schema: {} for a missing database and on an sqlite3.Error
\* (readable = FALSE), the columns of its tables otherwise.
get_schema(exists, readable) ==
    IF ~exists THEN EmptySchema
    ELSE IF readable THEN SeededSchema
    ELSE EmptySchema

\* SQLExecutor(db_path) and SchemaAnalyzer(db_path): the object keeps the path.
SQLExecutor_init(path) == path

SchemaAnalyzer_init(path) == path

\* A connection opened without ?mode=ro.
connect_mode_Writable == "rwc"

\* The mode of the URI SQLExecutor.execute connects with.
connect_mode == "ro"

\* The sessions a call of SchemaAnalyzer.get_schema opens, as they are when the
\* call returns: none for a missing file, otherwise one default (read-write)
\* connection, closed unless an sqlite3.Error skipped conn.close().
SchemaAnalyzer_sessions(path, exists, readable) ==
    IF ~exists THEN <<>>
    ELSE << [by |-> "schema_analyzer", path |-> path, mode |-> "rwc",
             open |-> ~readable] >>

\* The sessions a call of SQLExecutor.execute opens, as they are when the call
\* returns or raises: none for a missing file, otherwise one connection, which
\* conn.close() closes only on the path that returns a result.
SQLExecutor_sessions(path, exists, engine) ==
    IF ~exists THEN <<>>
    ELSE << [by |-> "executor", path |-> path, mode |-> connect_mode,
             open |-> engine.kind # "rows"] >>

\* Whether a call of SQLExecutor.execute changes the database: only a writing
\* statement on a session that is not read-only does.
SQLExecutor_writes(exists, engine) ==
    exists /\ engine.kind = "write" /\ connect_mode # "ro"

\* SQLExecutor.execute without the os.path.exists test: sqlite fails to open the
\* missing file read-only.
SQLExecutor_execute_NoExistsCheck(sql_query, exists, engine) ==
    IF ~exists
    THEN [raised |-> TRUE,
          exc |-> <<"Database error: ", "unable to open database file">>]
    ELSE IF engine.kind = "rows"
    THEN [raised |-> FALSE,
          result |-> [columns   |-> engine.columns,
                      rows      |-> engine.rows,
                      row_count |-> Len(engine.rows)]]
    ELSE IF engine.kind = "sqlite_error"
    THEN [raised |-> TRUE, exc |-> <<"Database error: ">> \o engine.msg]
    ELSE IF engine.kind = "write"
    THEN IF connect_mode = "ro"
         THEN [raised |-> TRUE,
               exc |-> <<"Database error: ", "attempt to write a readonly database">>]
         ELSE [raised |-> TRUE,
               exc |-> <<"Execution error: ", "'NoneType' object is not iterable">>]
    ELSE [raised |-> TRUE, exc |-> <<"Execution error: ">> \o engine.msg]

\* SQLExecutor.execute reporting the cursor's rowcount, which is -1 for a SELECT.
SQLExecutor_execute_Rowcount(sql_query, exists, engine) ==
    IF ~exists
    THEN [raised |-> TRUE, exc |-> <<"Database not found: ">> \o db_path]
    ELSE IF engine.kind = "rows"
    THEN [raised |-> FALSE,
          result |-> [columns   |-> engine.columns,
                      rows      |-> engine.rows,
                      row_count |-> -1]]
    ELSE IF engine.kind = "sqlite_error"
    THEN [raised |-> TRUE, exc |-> <<"Database error: ">> \o engine.msg]
    ELSE IF engine.kind = "write"
    THEN IF connect_mode = "ro"
         THEN [raised |-> TRUE,
               exc |-> <<"Database error: ", "attempt to write a readonly database">>]
         ELSE [raised |-> TRUE,
               exc |-> <<"Execution error: ", "'NoneType' object is not iterable">>]
    ELSE [raised |-> TRUE, exc |-> <<"Execution error: ">> \o engine.msg]

\* SQLExecutor.execute: the result dict, or the exception raised (its str()).
SQLExecutor_execute(sql_query, exists, engine) ==
    IF ~exists
    THEN [raised |-> TRUE, exc |-> <<"Database not found: ">> \o db_path]
    ELSE IF engine.kind = "rows"
    THEN [raised |-> FALSE,
          result |-> [columns   |-> engine.columns,
                      rows      |-> engine.rows,
                      row_count |-> Len(engine.rows)]]
    ELSE IF engine.kind = "sqlite_error"
    THEN [raised |-> TRUE, exc |-> <<"Database error: ">> \o engine.msg]
    ELSE IF engine.kind = "write"
    THEN IF connect_mode = "ro"
         THEN [raised |-> TRUE,
               exc |-> <<"Database error: ", "attempt to write a readonly database">>]
         ELSE [raised |-> TRUE,
               exc |-> <<"Execution error: ", "'NoneType' object is not iterable">>]
    ELSE [raised |-> TRUE, exc |-> <<"Execution error: ">> \o engine.msg]

\* ------------------------------------------------------------ the state dict

\* dict.get(key, default)
Get(d, key, default) == IF key \in DOMAIN d THEN d[key] ELSE default

\* The graph engine's merge of a node's returned dict into the state: every
\* returned key overwrites.
Merge(d, updates) == updates @@ d

\* Python truth of an optional text: None and "" are false.
Truthy(opt) == opt # None /\ opt[1] # <<>>

\* ------------------------------------------------------------------ nodes
\* Each node is the dict it returns, as a function of the state it is given
\* and of what its external call answered.

\* parse_intent; fetched is what schema_analyzer.get_schema() returns when asked.
\* parse_intent writing its defaults whether or not the field is present.
parse_intent_Resets(st, fetched) ==
    LET given == Get(st, "schema", EmptySchema)
    IN  [schema           |-> IF given = EmptySchema THEN fetched ELSE given,
         attempt          |-> 1,
         max_attempts     |-> 3,
         previous_errors  |-> <<>>,
         previous_queries |-> <<>>,
         success          |-> FALSE]

parse_intent(st, fetched) ==
    LET given  == Get(st, "schema", EmptySchema)
        schema == IF given = EmptySchema THEN fetched ELSE given
        absent == {"attempt", "max_attempts", "previous_errors",
                   "previous_queries", "success"} \ DOMAIN st
    IN  [k \in {"schema"} \cup absent |->
            CASE k = "schema"           -> schema
              [] k = "attempt"          -> 1
              [] k = "max_attempts"     -> 3
              [] k = "previous_errors"  -> <<>>
              [] k = "previous_queries" -> <<>>
              [] k = "success"          -> FALSE]

\* ", ".join(parts)
RECURSIVE JoinComma(_)
JoinComma(parts) ==
    IF parts = <<>> THEN <<>>
    ELSE IF Len(parts) = 1 THEN parts[1]
    ELSE parts[1] \o <<", ">> \o JoinComma(Tail(parts))

\* schema_str of generate_sql: one line per table.
schema_str(schema) ==
    Concat([i \in 1..Len(schema) |->
              <<schema[i].table, ": [">>
              \o JoinComma([j \in 1..Len(schema[i].columns) |->
                     LET col == schema[i].columns[j]
                     IN  <<col.name, " (", col.type>>
                         \o (IF col.primary_key THEN <<"*">> ELSE <<>>)
                         \o <<")">>])
              \o <<"]", "\n">>])

\* error_context of generate_sql: empty without previous errors, otherwise one
\* block per zipped (query, error) pair.
\* The error context naming the latest failure only.
error_context_LastOnly(previous_queries, previous_errors) ==
    IF previous_errors = <<>> THEN <<>>
    ELSE LET i == Min(Len(previous_queries), Len(previous_errors))
         IN  <<"\n", "\n", "Previous attempts failed with these errors:", "\n">>
             \o <<"\n", "Attempt ">> \o IntToText(i) \o <<":", "\n", "SQL: ">>
             \o previous_queries[i] \o <<"\n", "Error: ">>
             \o previous_errors[i] \o <<"\n">>
             \o <<"\n", "Please fix these issues in your new query.">>

error_context(previous_queries, previous_errors) ==
    IF previous_errors = <<>> THEN <<>>
    ELSE <<"\n", "\n", "Previous attempts failed with these errors:", "\n">>
         \o Concat([i \in 1..Min(Len(previous_queries), Len(previous_errors)) |->
                <<"\n", "Attempt ">> \o IntToText(i) \o <<":", "\n", "SQL: ">>
                \o previous_queries[i] \o <<"\n", "Error: ">>
                \o previous_errors[i] \o <<"\n">>])
         \o <<"\n", "Please fix these issues in your new query.">>

\* What generate_sql hands to chain.invoke.
llm_request(st) ==
    [user_query    |-> st["user_query"],
     schema        |-> schema_str(st["schema"]),
     error_context |-> error_context(Get(st, "previous_queries", <<>>),
                                     Get(st, "previous_errors", <<>>))]

\* The clean-up of the reply in generate_sql.
clean_sql(content) ==
    Strip(Remove(Remove(Strip(content), <<Fence, "s", "q", "l">>), <<Fence>>))

\* generate_sql; content is response.content.
generate_sql(st, content) ==
    [sql_query |-> clean_sql(content),
     attempt   |-> Get(st, "attempt", 1)]

\* validate_sql recording the error of a rejected candidate but not the candidate.
validate_sql_DropsQuery(st) ==
    LET sql_query == st["sql_query"]
        attempt   == Get(st, "attempt", 1)
        v         == validate(sql_query)
        message   == <<"Syntax Error:", " ">> \o v.error
    IN  IF ~v.is_valid
        THEN [execution_error  |-> Some(message),
              previous_errors  |-> Get(st, "previous_errors", <<>>) \o <<message>>,
              attempt          |-> attempt + 1,
              success          |-> FALSE]
        ELSE [execution_error |-> None]

\* validate_sql not counting a rejected candidate as an attempt.
validate_sql_NoIncrement(st) ==
    LET sql_query == st["sql_query"]
        attempt   == Get(st, "attempt", 1)
        v         == validate(sql_query)
        message   == <<"Syntax Error:", " ">> \o v.error
    IN  IF ~v.is_valid
        THEN [execution_error  |-> Some(message),
              previous_errors  |-> Get(st, "previous_errors", <<>>) \o <<message>>,
              previous_queries |-> Get(st, "previous_queries", <<>>) \o <<sql_query>>,
              attempt          |-> attempt,
              success          |-> FALSE]
        ELSE [execution_error |-> None]

\* validate_sql storing the validator's message without the "Syntax Error:" prefix.
validate_sql_NoPrefix(st) ==
    LET sql_query == st["sql_query"]
        attempt   == Get(st, "attempt", 1)
        v         == validate(sql_query)
        message   == v.error
    IN  IF ~v.is_valid
        THEN [execution_error  |-> Some(message),
              previous_errors  |-> Get(st, "previous_errors", <<>>) \o <<message>>,
              previous_queries |-> Get(st, "previous_queries", <<>>) \o <<sql_query>>,
              attempt          |-> attempt + 1,
              success          |-> FALSE]
        ELSE [execution_error |-> None]

\* validate_sql
\* validate_sql leaving execution_error as it was for a valid statement.
validate_sql_KeepsError(st) ==
    LET sql_query == st["sql_query"]
        attempt   == Get(st, "attempt", 1)
        v         == validate(sql_query)
        message   == <<"Syntax Error:", " ">> \o v.error
    IN  IF ~v.is_valid
        THEN [execution_error  |-> Some(message),
              previous_errors  |-> Get(st, "previous_errors", <<>>) \o <<message>>,
              previous_queries |-> Get(st, "previous_queries", <<>>) \o <<sql_query>>,
              attempt          |-> attempt + 1,
              success          |-> FALSE]
        ELSE [execution_error |-> Get(st, "execution_error", None)]

validate_sql(st) ==
    LET sql_query == st["sql_query"]
        attempt   == Get(st, "attempt", 1)
        v         == validate(sql_query)
        message   == <<"Syntax Error:", " ">> \o v.error
    IN  IF ~v.is_valid
        THEN [execution_error  |-> Some(message),
              previous_errors  |-> Get(st, "previous_errors", <<>>) \o <<message>>,
              previous_queries |-> Get(st, "previous_queries", <<>>) \o <<sql_query>>,
              attempt          |-> attempt + 1,
              success          |-> FALSE]
        ELSE [execution_error |-> None]

\* {col: val for col, val in zip(columns, row)}
RowAsDict(columns, row) ==
    LET n == Min(Len(columns), Len(row))
    IN  [c \in {columns[i] : i \in 1..n} |->
            row[CHOOSE i \in 1..n :
                    columns[i] = c /\ \A j \in 1..n : columns[j] = c => j <= i]]

\* execute_sql recording a failed execution without counting it as an attempt.
execute_sql_NoIncrement(st, exists, engine) ==
    LET sql_query == st["sql_query"]
        attempt   == Get(st, "attempt", 1)
        r         == SQLExecutor_execute(sql_query, exists, engine)
    IN  IF ~r.raised
        THEN [execution_result |->
                 Some([columns   |-> r.result.columns,
                       rows      |-> r.result.rows,
                       data      |-> [i \in 1..Len(r.result.rows) |->
                                         RowAsDict(r.result.columns, r.result.rows[i])],
                       row_count |-> r.result.row_count]),
              execution_error |-> None,
              success         |-> TRUE]
        ELSE [execution_error  |-> Some(r.exc),
              previous_errors  |-> Get(st, "previous_errors", <<>>) \o <<r.exc>>,
              previous_queries |-> Get(st, "previous_queries", <<>>) \o <<sql_query>>,
              attempt          |-> attempt,
              success          |-> FALSE]

\* execute_sql counting a successful execution as an attempt as well.
execute_sql_CountsSuccess(st, exists, engine) ==
    LET sql_query == st["sql_query"]
        attempt   == Get(st, "attempt", 1)
        r         == SQLExecutor_execute(sql_query, exists, engine)
    IN  IF ~r.raised
        THEN [execution_result |->
                 Some([columns   |-> r.result.columns,
                       rows      |-> r.result.rows,
                       data      |-> [i \in 1..Len(r.result.rows) |->
                                         RowAsDict(r.result.columns, r.result.rows[i])],
                       row_count |-> r.result.row_count]),
              execution_error |-> None,
              attempt         |-> attempt + 1,
              success         |-> TRUE]
        ELSE [execution_error  |-> Some(r.exc),
              previous_errors  |-> Get(st, "previous_errors", <<>>) \o <<r.exc>>,
              previous_queries |-> Get(st, "previous_queries", <<>>) \o <<sql_query>>,
              attempt          |-> attempt + 1,
              success          |-> FALSE]

\* execute_sql; exists and engine are what the file system and sqlite answer.
\* execute_sql storing the failure with a note after the message.
execute_sql_Annotates(st, exists, engine) ==
    LET sql_query == st["sql_query"]
        attempt   == Get(st, "attempt", 1)
        r         == SQLExecutor_execute(sql_query, exists, engine)
    IN  IF ~r.raised
        THEN [execution_result |->
                 Some([columns   |-> r.result.columns,
                       rows      |-> r.result.rows,
                       data      |-> [i \in 1..Len(r.result.rows) |->
                                         RowAsDict(r.result.columns, r.result.rows[i])],
                       row_count |-> r.result.row_count]),
              execution_error |-> None,
              success         |-> TRUE]
        ELSE [execution_error  |-> Some(r.exc \o <<"\n", "\n", "Error Type: ",
                                              "UNKNOWN", "\n">>),
              previous_errors  |-> Get(st, "previous_errors", <<>>) \o <<r.exc>>,
              previous_queries |-> Get(st, "previous_queries", <<>>) \o <<sql_query>>,
              attempt          |-> attempt + 1,
              success          |-> FALSE]

\* execute_sql keeping the latest failure only in the histories.
execute_sql_Replaces(st, exists, engine) ==
    LET sql_query == st["sql_query"]
        attempt   == Get(st, "attempt", 1)
        r         == SQLExecutor_execute(sql_query, exists, engine)
    IN  IF ~r.raised
        THEN [execution_result |->
                 Some([columns   |-> r.result.columns,
                       rows      |-> r.result.rows,
                       data      |-> [i \in 1..Len(r.result.rows) |->
                                         RowAsDict(r.result.columns, r.result.rows[i])],
                       row_count |-> r.result.row_count]),
              execution_error |-> None,
              success         |-> TRUE]
        ELSE [execution_error  |-> Some(r.exc),
              previous_errors  |-> <<r.exc>>,
              previous_queries |-> <<sql_query>>,
              attempt          |-> attempt + 1,
              success          |-> FALSE]

execute_sql(st, exists, engine) ==
    LET sql_query == st["sql_query"]
        attempt   == Get(st, "attempt", 1)
        r         == SQLExecutor_execute(sql_query, exists, engine)
    IN  IF ~r.raised
        THEN [execution_result |->
                 Some([columns   |-> r.result.columns,
                       rows      |-> r.result.rows,
                       data      |-> [i \in 1..Len(r.result.rows) |->
                                         RowAsDict(r.result.columns, r.result.rows[i])],
                       row_count |-> r.result.row_count]),
              execution_error |-> None,
              success         |-> TRUE]
        ELSE [execution_error  |-> Some(r.exc),
              previous_errors  |-> Get(st, "previous_errors", <<>>) \o <<r.exc>>,
              previous_queries |-> Get(st, "previous_queries", <<>>) \o <<sql_query>>,
              attempt          |-> attempt + 1,
              success          |-> FALSE]

\* analyze_error
\* analyze_error counting the analysis as an attempt.
analyze_error_Increments(st) ==
    LET error        == Get(st, "execution_error", Some(<<>>))[1]
        sql_query    == st["sql_query"]
        analysis     == analyze_error_fn(error, sql_query)
        problem_area == extract_problem_area(error, sql_query)
        enhanced     == error \o <<"\n", "\n">>
                        \o <<"Error Type: ", analysis.error_type, "\n">>
                        \o <<"Suggestion: ", analysis.suggested_fix, "\n">>
                        \o (IF Truthy(problem_area)
                            THEN <<"Problem Area: ">> \o problem_area[1] \o <<"\n">>
                            ELSE <<>>)
    IN  [execution_error |-> Some(enhanced),
         attempt         |-> Get(st, "attempt", 1) + 1]

analyze_error(st) ==
    LET error        == Get(st, "execution_error", Some(<<>>))[1]
        sql_query    == st["sql_query"]
        analysis     == analyze_error_fn(error, sql_query)
        problem_area == extract_problem_area(error, sql_query)
        enhanced     == error \o <<"\n", "\n">>
                        \o <<"Error Type: ", analysis.error_type, "\n">>
                        \o <<"Suggestion: ", analysis.suggested_fix, "\n">>
                        \o (IF Truthy(problem_area)
                            THEN <<"Problem Area: ">> \o problem_area[1] \o <<"\n">>
                            ELSE <<>>)
    IN  [execution_error |-> Some(enhanced),
         attempt         |-> Get(st, "attempt", 1)]

\* format_results
format_results(st) ==
    LET result == st["execution_result"][1]
    IN  [formatted_result |->
            Some(format_results_fn(result.data, Dedup(result.columns),
                                   st["sql_query"], Some(100)))]

\* The numbered error lines of ask_clarification.
RECURSIVE NumberedLines(_, _)
NumberedLines(errors, i) ==
    IF i > Len(errors) THEN <<>>
    ELSE <<"\n">> \o IntToText(i) \o <<". ">> \o errors[i]
         \o NumberedLines(errors, i + 1)

\* ask_clarification listing the last two errors only.
ask_clarification_LastTwo(st) ==
    LET all             == st["previous_errors"]
        previous_errors == IF Len(all) <= 2 THEN all
                           ELSE SubSeq(all, Len(all) - 1, Len(all))
        user_query      == st["user_query"]
        clarification   ==
            <<"Unable to generate a working SQL query after ">>
            \o IntToText(st["max_attempts"]) \o <<" attempts.", "\n", "\n">>
            \o <<"Original query: ">> \o user_query \o <<"\n", "\n">>
            \o <<"Errors encountered:", "\n">>
            \o NumberedLines(previous_errors, 1)
            \o <<"\n", "\n", "Please try:",
                 "\n", "- Rephrasing your question",
                 "\n", "- Being more specific about column names",
                 "\n", "- Checking if the data you're asking for exists">>
    IN  [formatted_result |-> Some(clarification)]

\* ask_clarification
\* ask_clarification ending the run without a message.
ask_clarification_Silent(st) == [formatted_result |-> None]

ask_clarification(st) ==
    LET previous_errors == st["previous_errors"]
        user_query      == st["user_query"]
        clarification   ==
            <<"Unable to generate a working SQL query after ">>
            \o IntToText(st["max_attempts"]) \o <<" attempts.", "\n", "\n">>
            \o <<"Original query: ">> \o user_query \o <<"\n", "\n">>
            \o <<"Errors encountered:", "\n">>
            \o NumberedLines(previous_errors, 1)
            \o <<"\n", "\n", "Please try:",
                 "\n", "- Rephrasing your question",
                 "\n", "- Being more specific about column names",
                 "\n", "- Checking if the data you're asking for exists">>
    IN  [formatted_result |-> Some(clarification)]

\* ----------------------------------------------------------------- routing

\* should_retry allowing one attempt more than max_attempts.
should_retry_OneMore(st) ==
    LET success      == Get(st, "success", FALSE)
        attempt      == Get(st, "attempt", 1)
        max_attempts == Get(st, "max_attempts", 3)
    IN  IF success THEN "format_results"
        ELSE IF attempt <= max_attempts + 1 THEN "analyze_error"
        ELSE "ask_clarification"

\* should_retry comparing with < in place of <=.
should_retry_Strict(st) ==
    LET success      == Get(st, "success", FALSE)
        attempt      == Get(st, "attempt", 1)
        max_attempts == Get(st, "max_attempts", 3)
    IN  IF success THEN "format_results"
        ELSE IF attempt < max_attempts THEN "analyze_error"
        ELSE "ask_clarification"

\* should_retry looking at the attempt counter before it looks at success.
should_retry_AttemptFirst(st) ==
    LET success      == Get(st, "success", FALSE)
        attempt      == Get(st, "attempt", 1)
        max_attempts == Get(st, "max_attempts", 3)
    IN  IF attempt > max_attempts THEN "ask_clarification"
        ELSE IF success THEN "format_results"
        ELSE "analyze_error"

\* should_retry
should_retry(st) ==
    LET success      == Get(st, "success", FALSE)
        attempt      == Get(st, "attempt", 1)
        max_attempts == Get(st, "max_attempts", 3)
    IN  IF success THEN "format_results"
        ELSE IF attempt <= max_attempts THEN "analyze_error"
        ELSE "ask_clarification"

\* is_valid_sql applying the attempt ceiling to a rejected candidate.
is_valid_sql_Ceiling(st) ==
    LET execution_error == Get(st, "execution_error", Some(<<>>))
    IN  IF Truthy(execution_error) /\ StartsWith(execution_error[1], <<"Syntax Error:">>)
        THEN IF Get(st, "attempt", 1) <= Get(st, "max_attempts", 3)
             THEN "generate_sql"
             ELSE "ask_clarification"
        ELSE "execute_sql"

\* is_valid_sql
is_valid_sql(st) ==
    LET execution_error == Get(st, "execution_error", Some(<<>>))
    IN  IF Truthy(execution_error) /\ StartsWith(execution_error[1], <<"Syntax Error:">>)
        THEN "generate_sql"
        ELSE "execute_sql"

\* ------------------------------------------------------------ the workflow

VARIABLES
    state,      \* the state dict of the run: a function on the keys that are set
    pc,         \* the node the engine runs next, "END" or "RAISED"
    raised,     \* the exception the run ended with, if any
    input,      \* the initial state the caller passed to invoke
    db_exists,  \* whether the database file exists
    llm_input,  \* what the latest generate_sql handed to the chat model
    last,       \* the node that ran last, and whether its tool call succeeded
    count,      \* how often each node has run
    calls,      \* the calls made to a tool object directly, with their results
    tools,      \* the database paths of the module-global executor and schema_analyzer
    sessions,   \* the database connections opened so far, in order
    schema_fetches, \* how often schema_analyzer.get_schema() was called
    db_writes   \* how often a statement changed the database

vars == <<state, pc, raised, input, db_exists, llm_input, last, count, calls,
          tools, sessions, schema_fetches, db_writes>>

\* What the tools leave behind outside the state dict.
resources == <<sessions, schema_fetches, db_writes>>

Nodes ==
    {"parse_intent", "generate_sql", "validate_sql", "execute_sql",
     "analyze_error", "format_results", "ask_clarification"}

\* The initial states callers pass: the question alone, the question with
\* max_attempts, the question with a schema, and the full dict the UI builds.
InitialStates ==
    { [user_query |-> q] : q \in UserQueries }
    \cup
    { [user_query |-> q, max_attempts |-> m] :
        q \in UserQueries, m \in 1..MaxCallerAttempts }
    \cup
    { [user_query |-> q, schema |-> SeededSchema] : q \in UserQueries }
    \cup
    { [user_query       |-> q,
       sql_query        |-> <<>>,
       execution_result |-> None,
       execution_error  |-> None,
       attempt          |-> a,
       max_attempts     |-> m,
       previous_errors  |-> <<>>,
       previous_queries |-> <<>>,
       formatted_result |-> None,
       success          |-> FALSE,
       schema           |-> EmptySchema] :
        q \in UserQueries, a \in 1..MaxStartAttempt, m \in 1..MaxCallerAttempts }

Init ==
    /\ input \in InitialStates
    /\ state = input
    /\ pc = "parse_intent"
    /\ raised = None
    /\ db_exists \in BOOLEAN
    /\ llm_input = None
    /\ last = [node |-> "START", ok |-> TRUE]
    /\ count = [n \in Nodes |-> 0]
    /\ calls = <<>>
    /\ tools = [executor |-> SQLExecutor_init(db_path),
                schema_analyzer |-> SchemaAnalyzer_init(db_path)]
    /\ sessions = <<>>
    /\ schema_fetches = 0
    /\ db_writes = 0

\* The node executions of the run so far.
Steps ==
    count["parse_intent"] + count["generate_sql"] + count["validate_sql"]
    + count["execute_sql"] + count["analyze_error"] + count["format_results"]
    + count["ask_clarification"]

\* One step of the graph engine: run the node, merge the dict it returns.
\* ok: the node's tool call (the validator, the executor) did not fail.
RunNode(node, updates, ok) ==
    /\ pc = node
    /\ Steps < RecursionLimit
    /\ state' = Merge(state, updates)
    /\ count' = [count EXCEPT ![node] = @ + 1]
    /\ last' = [node |-> node, ok |-> ok]
    /\ UNCHANGED <<raised, input, db_exists, calls, tools>>

\* parse_intent calling get_schema() whatever the state holds.
ParseIntent_AlwaysFetches ==
    \E readable \in BOOLEAN :
        /\ RunNode("parse_intent",
                   [parse_intent(state, get_schema(db_exists, readable))
                      EXCEPT !["schema"] = get_schema(db_exists, readable)], TRUE)
        /\ pc' = "generate_sql"
        /\ schema_fetches' = schema_fetches + 1
        /\ sessions' = sessions \o SchemaAnalyzer_sessions(
                           tools.schema_analyzer, db_exists, readable)
        /\ UNCHANGED <<llm_input, db_writes>>

ParseIntent ==
    \E readable \in BOOLEAN :
        /\ RunNode("parse_intent",
                   parse_intent(state, get_schema(db_exists, readable)), TRUE)
        /\ pc' = "generate_sql"
        /\ IF Get(state, "schema", EmptySchema) = EmptySchema
           THEN /\ schema_fetches' = schema_fetches + 1
                /\ sessions' = sessions \o SchemaAnalyzer_sessions(
                                   tools.schema_analyzer, db_exists, readable)
           ELSE UNCHANGED <<schema_fetches, sessions>>
        /\ UNCHANGED <<llm_input, db_writes>>

GenerateSQL ==
    \E content \in Responses :
        /\ RunNode("generate_sql", generate_sql(state, content), TRUE)
        /\ pc' = "validate_sql"
        /\ llm_input' = Some(llm_request(state))
        /\ UNCHANGED resources

\* A failed chat model call that is caught and tried again.
GenerateFault_Retried ==
    /\ pc = "generate_sql"
    /\ Steps < RecursionLimit
    /\ pc' = "generate_sql"
    /\ llm_input' = Some(llm_request(state))
    /\ count' = [count EXCEPT !["generate_sql"] = @ + 1]
    /\ last' = [node |-> "generate_sql", ok |-> FALSE]
    /\ UNCHANGED <<state, raised, input, db_exists, calls, tools, resources>>

\* The chat model call raises: the exception leaves generate_sql and invoke.
GenerateFault ==
    /\ pc = "generate_sql"
    /\ Steps < RecursionLimit
    /\ pc' = "RAISED"
    /\ raised' = Some("SynthesizerError")
    /\ llm_input' = Some(llm_request(state))
    /\ count' = [count EXCEPT !["generate_sql"] = @ + 1]
    /\ last' = [node |-> "generate_sql", ok |-> FALSE]
    /\ UNCHANGED <<state, input, db_exists, calls, tools, resources>>

ValidateSQL ==
    /\ RunNode("validate_sql", validate_sql(state),
               validate(state["sql_query"]).is_valid)
    /\ pc' = is_valid_sql(state')
    /\ UNCHANGED <<llm_input, resources>>

\* execute_sql without its except clause: the executor's exception leaves the
\* node and invoke.
ExecuteSQL_Propagates ==
    \E engine \in EngineOutcomes :
        LET r == SQLExecutor_execute(state["sql_query"], db_exists, engine)
        IN  IF ~r.raised
            THEN /\ RunNode("execute_sql", execute_sql(state, db_exists, engine), TRUE)
                 /\ pc' = should_retry(state')
                 /\ sessions' = sessions \o SQLExecutor_sessions(tools.executor,
                                                                 db_exists, engine)
                 /\ UNCHANGED <<llm_input, schema_fetches, db_writes>>
            ELSE /\ pc = "execute_sql"
                 /\ Steps < RecursionLimit
                 /\ pc' = "RAISED"
                 /\ raised' = Some(r.exc)
                 /\ count' = [count EXCEPT !["execute_sql"] = @ + 1]
                 /\ last' = [node |-> "execute_sql", ok |-> FALSE]
                 /\ sessions' = sessions \o SQLExecutor_sessions(tools.executor,
                                                                 db_exists, engine)
                 /\ db_writes' = db_writes
                                  + (IF SQLExecutor_writes(db_exists, engine)
                                     THEN 1 ELSE 0)
                 /\ UNCHANGED <<state, input, db_exists, llm_input, calls, tools,
                                schema_fetches>>

ExecuteSQL ==
    \E engine \in EngineOutcomes :
        /\ RunNode("execute_sql", execute_sql(state, db_exists, engine),
                   ~SQLExecutor_execute(state["sql_query"], db_exists, engine).raised)
        /\ pc' = should_retry(state')
        /\ sessions' = sessions \o SQLExecutor_sessions(tools.executor,
                                                        db_exists, engine)
        /\ db_writes' = db_writes
                         + (IF SQLExecutor_writes(db_exists, engine) THEN 1 ELSE 0)
        /\ UNCHANGED <<llm_input, schema_fetches>>

AnalyzeError ==
    /\ RunNode("analyze_error", analyze_error(state), TRUE)
    /\ pc' = "generate_sql"
    /\ UNCHANGED <<llm_input, resources>>

FormatResults ==
    /\ RunNode("format_results", format_results(state), TRUE)
    /\ pc' = "END"
    /\ UNCHANGED <<llm_input, resources>>

AskClarification ==
    /\ RunNode("ask_clarification", ask_clarification(state), TRUE)
    /\ pc' = "END"
    /\ UNCHANGED <<llm_input, resources>>

\* The engine's step budget is used up and a node is still due: the engine
\* raises and invoke re-raises.
RecursionAbort ==
    /\ pc \in Nodes
    /\ Steps >= RecursionLimit
    /\ pc' = "RAISED"
    /\ raised' = Some("GraphRecursionError")
    /\ UNCHANGED <<state, input, db_exists, llm_input, last, count, calls, tools, resources>>

\* The steps of a run in which every external call returns.
NextReturns ==
    \/ ParseIntent
    \/ GenerateSQL
    \/ ValidateSQL
    \/ ExecuteSQL
    \/ AnalyzeError
    \/ FormatResults
    \/ AskClarification
    \/ RecursionAbort

Next ==
    \/ NextReturns
    \/ GenerateFault

Spec == Init /\ [][Next]_vars

\* The runs in which every call of the chat model and of the database returns.
SpecReturns == Init /\ [][NextReturns]_vars

\* create_graph(db_path), called for another workflow while this one exists:
\* it assigns the executor and the schema analyzer that the nodes of every
\* workflow use.
CreateGraph ==
    /\ \E path \in DbPaths :
          tools' = [executor |-> SQLExecutor_init(path),
                    schema_analyzer |-> SchemaAnalyzer_init(path)]
    /\ UNCHANGED <<state, pc, raised, input, db_exists, llm_input, last, count,
                   calls, resources>>

\* A workflow created for db_path, about to run on a question alone, both
\* databases being there.
InitShared ==
    /\ Init
    /\ DOMAIN input = {"user_query"}
    /\ db_exists

\* The runs of that workflow in a process that creates other workflows.
SpecShared == InitShared /\ [][Next \/ CreateGraph]_vars

\* ------------------------------------------------- the tools called directly

\* The statements handed to validate: nothing or a leading word, followed by
\* nothing, whitespace, a literal or one denylisted keyword in lower case.
ValidatorHeads ==
    { <<>>,
      SELECT,
      Lower(SELECT),
      <<" ">> \o SELECT,
      <<"s","h","o","w">>,
      <<"R","E","P","L","A","C","E">>,
      <<"(">> \o SELECT,
      SELECT \o <<"1">> }

ValidatorTails ==
    { <<>>, <<" ", "\n">>, <<" ", "1">> }
    \cup { <<" ">> \o Lower(dangerous_keywords[k]) \o <<"d">> :
              k \in 1..Len(dangerous_keywords) }

ValidatorInputs == { h \o t : h \in ValidatorHeads, t \in ValidatorTails }

\* The statements validated again and again.
RevalidatedInputs ==
    { <<>>,
      <<" ", "\n">>,
      SELECT \o <<" ", "1">>,
      Lower(SELECT) \o <<" ">> \o Lower(dangerous_keywords[7]) \o <<"d">>,
      Lower(dangerous_keywords[1]) \o <<" ", "t">>,
      <<"s","h","o","w">> \o <<" ", "t">> }

\* One error text per category of _classify_error, in the order of its tests.
CategoryTexts ==
    << KwNoSuchTable \o <<":", " ", "t">>,
       KwNoSuchColumn \o <<":", " ", "c">>,
       <<"n","e","a","r"," ","x",":"," ">> \o KwSyntaxError,
       KwAmbiguous \o <<" ","n","a","m","e",":"," ","i","d">>,
       KwDatatype,
       <<"U","N","I","Q","U","E"," ">> \o KwConstraint \o <<" ","f","a","i","l","e","d">>,
       KwFunction \o <<" ", "f", " ">> \o KwDoesNotExist >>

\* The error texts handed to analyze_error: each category's text as it is and
\* in upper case, every two of them joined with the later category's text
\* first, and texts of no category.
ErrorTexts ==
    { CategoryTexts[i] : i \in 1..Len(CategoryTexts) }
    \cup { Upper(CategoryTexts[i]) : i \in 1..Len(CategoryTexts) }
    \cup { CategoryTexts[p[2]] \o <<";", " ">> \o CategoryTexts[p[1]] :
              p \in {q \in (1..Len(CategoryTexts)) \X (1..Len(CategoryTexts)) :
                         q[1] < q[2]} }
    \cup { KwNoSuchFunction \o <<":", " ", "f">>,
           KwTypeMismatch,
           <<"d","i","s","k"," ","I","/","O"," ","e","r","r","o","r">>,
           <<>> }

\* No workflow is running: only tool objects are called.
InitTools ==
    /\ input = <<>>
    /\ state = <<>>
    /\ pc = "IDLE"
    /\ raised = None
    /\ db_exists = TRUE
    /\ llm_input = None
    /\ last = [node |-> "START", ok |-> TRUE]
    /\ count = [n \in Nodes |-> 0]
    /\ calls = <<>>
    /\ tools = [executor |-> SQLExecutor_init(db_path),
                schema_analyzer |-> SchemaAnalyzer_init(db_path)]
    /\ sessions = <<>>
    /\ schema_fetches = 0
    /\ db_writes = 0

\* The record of one call of SQLValidator.validate.
ValidateEntry(sql_query, result) ==
    [fn |-> "validate", sql_query |-> sql_query, result |-> result]

\* A call of validate on a new SQLValidator.
ValidateOnce ==
    /\ calls = <<>>
    /\ \E sql_query \in ValidatorInputs :
          calls' = <<ValidateEntry(sql_query, validate(sql_query))>>
    /\ UNCHANGED <<state, pc, raised, input, db_exists, llm_input, last, count,
                   tools, resources>>

\* A validator that, once it has rejected a statement for a denylisted
\* keyword, answers every later call with that rejection.
ValidateCall_Latched ==
    /\ Len(calls) < MaxCalls
    /\ \E sql_query \in RevalidatedInputs :
          LET rejected == {i \in 1..Len(calls) :
                              /\ ~calls[i].result.is_valid
                              /\ calls[i].result.error[1]
                                     = "Dangerous operation detected: "}
              result   == IF rejected = {} THEN validate(sql_query)
                          ELSE calls[CHOOSE i \in rejected : TRUE].result
          IN  calls' = Append(calls, ValidateEntry(sql_query, result))
    /\ UNCHANGED <<state, pc, raised, input, db_exists, llm_input, last, count,
                   tools, resources>>

\* One more call of validate on the same SQLValidator.
ValidateCall ==
    /\ Len(calls) < MaxCalls
    /\ \E sql_query \in RevalidatedInputs :
          calls' = Append(calls, ValidateEntry(sql_query, validate(sql_query)))
    /\ UNCHANGED <<state, pc, raised, input, db_exists, llm_input, last, count,
                   tools, resources>>

\* A call of the static method ErrorAnalyzer.analyze_error.
AnalyzeCall ==
    /\ Len(calls) < MaxAnalyses
    /\ \E error \in ErrorTexts :
          LET sql_query == SELECT \o <<" ", "1">>
          IN  calls' = Append(calls,
                              [fn        |-> "analyze_error",
                               error     |-> error,
                               sql_query |-> sql_query,
                               result    |-> analyze_error_fn(error, sql_query)])
    /\ UNCHANGED <<state, pc, raised, input, db_exists, llm_input, last, count,
                   tools, resources>>

\* The rows handed to format_results: 0 to MaxRows + 1 dicts with the key "id".
FormatterRows ==
    { [i \in 1..n |-> [id |-> i]] : n \in 0..(MaxRows + 1) }

\* The max_rows handed to format_results: None (the default) or a count.
FormatterLimits == {None} \cup { Some(m) : m \in 0..MaxRows }

\* A call of the static method ResultFormatter.format_results.
FormatCall ==
    /\ Len(calls) < MaxFormats
    /\ \E results \in FormatterRows, max_rows \in FormatterLimits :
          LET query == SELECT \o <<" ", "1">>
          IN  calls' = Append(calls,
                              [fn       |-> "format_results",
                               results  |-> results,
                               max_rows |-> max_rows,
                               result   |-> format_results_fn(results, <<"id">>,
                                                              query, max_rows)])
    /\ UNCHANGED <<state, pc, raised, input, db_exists, llm_input, last, count,
                   tools, resources>>

\* format_results applied to one result set after another.
SpecFormatter == InitTools /\ [][FormatCall]_vars

\* validate applied to one statement.
SpecValidator == InitTools /\ [][ValidateOnce]_vars

\* validate applied to one statement after another.
SpecValidatorCalls == InitTools /\ [][ValidateCall]_vars

\* analyze_error applied to one error text after another.
SpecAnalyzer == InitTools /\ [][AnalyzeCall]_vars

\* A call of ErrorAnalyzer.extract_problem_area.
ExtractCall ==
    /\ Len(calls) < MaxAnalyses
    /\ \E error \in ErrorTexts :
          LET sql_query == SELECT \o <<" ", "1">>
          IN  calls' = Append(calls,
                              [fn        |-> "extract_problem_area",
                               error     |-> error,
                               sql_query |-> sql_query,
                               result    |-> extract_problem_area(error, sql_query)])
    /\ UNCHANGED <<state, pc, raised, input, db_exists, llm_input, last, count,
                   tools, resources>>

\* The two entry points of ErrorAnalyzer called in any order.
SpecProblemArea == InitTools /\ [][AnalyzeCall \/ ExtractCall]_vars

\* ------------------------------------------------------------- properties

attempt == Get(state, "attempt", 1)

max_attempts == Get(state, "max_attempts", 3)

previous_queries == Get(state, "previous_queries", <<>>)

previous_errors == Get(state, "previous_errors", <<>>)

success == Get(state, "success", FALSE)

\* The step being taken runs the node n (and is not the engine giving up).
Runs(n) == pc = n /\ count'[n] = count[n] + 1

\* The entries of previous_errors that validate_sql wrote / execute_sql wrote.
SyntaxEntries == {i \in 1..Len(previous_errors) :
                     StartsWith(previous_errors[i], <<"Syntax Error:">>)}

ExecutionEntries == (1..Len(previous_errors)) \ SyntaxEntries

\* C1: a run in which the chat model and the database always answer ends, when
\* it ends, in END after format_results or ask_clarification: no such run is
\* given up with the retry loop still going.
C1_EndsInTerminal ==
    pc \notin Nodes =>
        /\ pc = "END"
        /\ last.node \in {"format_results", "ask_clarification"}

\* C2: after every node, previous_queries and previous_errors have the same
\* length.
C2_ParallelHistories ==
    last.node \in Nodes => Len(previous_queries) = Len(previous_errors)

C2_Witness ==
    /\ last.node = "ask_clarification"
    /\ Len(previous_queries) = Len(previous_errors)
    /\ SyntaxEntries # {}
    /\ ExecutionEntries # {}

\* C3: a validate_sql step that rejects and an execute_sql step that fails
\* add exactly 1 to attempt; every other step leaves attempt as it is.
C3_AttemptSteps ==
    [][ IF (Runs("validate_sql") \/ Runs("execute_sql")) /\ ~last'.ok
        THEN Get(state', "attempt", 1) = attempt + 1
        ELSE Get(state', "attempt", 1) = attempt ]_vars

C3_Witness ==
    /\ attempt = Get(input, "attempt", 1) + 3
    /\ SyntaxEntries # {}
    /\ ExecutionEntries # {}
    /\ pc = "END"

\* C4: in a run started with attempt = 1, execute_sql runs at most max_attempts
\* times.
C4_ExecutionsBounded ==
    Get(input, "attempt", 1) = 1 => count["execute_sql"] <= max_attempts

C4_Witness ==
    /\ Get(input, "attempt", 1) = 1
    /\ max_attempts = 2
    /\ count["execute_sql"] = 2
    /\ SyntaxEntries # {}
    /\ last.node = "execute_sql"

\* C5: execute_sql is due only right after a validate_sql step that accepted
\* the sql_query now in the state.
C5_ExecuteOnlyValidated ==
    pc = "execute_sql" =>
        /\ last = [node |-> "validate_sql", ok |-> TRUE]
        /\ validate(state["sql_query"]).is_valid

\* execute_sql is due although an execution failed and was analyzed earlier and
\* a rejected candidate followed it.
C5_Witness ==
    /\ pc = "execute_sql"
    /\ count["analyze_error"] >= 1
    /\ Len(previous_errors) >= 2
    /\ Len(previous_errors) \in SyntaxEntries
    /\ 1 \in ExecutionEntries

\* C6: whenever success is true, execution_error is None, execution_result is
\* set with row_count = len(rows), and the latest execute_sql step did not fail
\* (it is the last step, or only format_results followed it).
C6_SuccessState ==
    success =>
        /\ state["execution_error"] = None
        /\ state["execution_result"] # None
        /\ state["execution_result"][1].row_count
               = Len(state["execution_result"][1].rows)
        /\ \/ last = [node |-> "execute_sql", ok |-> TRUE]
           \/ last.node = "format_results" /\ count["format_results"] = 1

C6_Witness ==
    /\ success
    /\ last.node = "execute_sql"
    /\ Len(previous_errors) >= 2
    /\ state["execution_result"][1].row_count = 2

\* C7: when ask_clarification is due or has run, attempt > max_attempts and
\* success is false.
C7_ClarificationExhausted ==
    (pc = "ask_clarification" \/ last.node = "ask_clarification") =>
        /\ attempt > max_attempts
        /\ ~success

C7_Witness ==
    /\ pc = "ask_clarification"
    /\ max_attempts = 2
    /\ attempt = 3
    /\ count["analyze_error"] = 1

\* The position of the glyph g in the text t (0 if it is not there).
IndexOf(t, g) ==
    IF \E i \in 1..Len(t) : t[i] = g
    THEN CHOOSE i \in 1..Len(t) : t[i] = g /\ \A j \in 1..(i - 1) : t[j] # g
    ELSE 0

\* C8: the clarification message holds the user's question after "Original
\* query: ", and between "Errors encountered:" and "Please try:" exactly one line
\* "<i>. <previous_errors[i]>" per history entry, in history order.
C8_ClarificationMessage ==
    last.node = "ask_clarification" =>
        LET msg == state["formatted_result"][1]
            e   == IndexOf(msg, "Errors encountered:")
            p   == IndexOf(msg, "Please try:")
            q   == IndexOf(msg, "Original query: ")
        IN  /\ 0 < q /\ q < e /\ e < p
            /\ SubSeq(msg, q + 1, e - 3) = state["user_query"]
            /\ SubSeq(msg, e + 2, p - 3) =
                   Concat([i \in 1..Len(previous_errors) |->
                              <<"\n">> \o IntToText(i) \o <<". ">>
                              \o previous_errors[i]])

C8_Witness ==
    /\ last.node = "ask_clarification"
    /\ Len(previous_errors) >= 3
    /\ 1 \in SyntaxEntries
    /\ ExecutionEntries # {}

\* C9: the step after execute_sql is format_results if success, otherwise
\* analyze_error if attempt <= max_attempts, otherwise ask_clarification; and a
\* terminal node becomes due only by an execute_sql step.
C9_RoutingAfterExecute ==
    [][ /\ Runs("execute_sql") =>
              pc' = IF state'["success"] THEN "format_results"
                    ELSE IF state'["attempt"] <= state'["max_attempts"]
                         THEN "analyze_error"
                         ELSE "ask_clarification"
        /\ (pc' \in {"format_results", "ask_clarification"} /\ pc' # pc) =>
              Runs("execute_sql") ]_vars

C9_Witness ==
    /\ last = [node |-> "execute_sql", ok |-> FALSE]
    /\ pc = "analyze_error"
    /\ attempt = max_attempts
    /\ SyntaxEntries # {}

\* C10: a rejected candidate costs an attempt and the next node is generate_sql
\* whatever attempt is; a failed execution costs an attempt and, with attempt <=
\* max_attempts, the next node is analyze_error and generate_sql after it.
C10_FailureRouting ==
    [][ /\ (Runs("validate_sql") /\ ~last'.ok) =>
              /\ pc' = "generate_sql"
              /\ state'["attempt"] = attempt + 1
        /\ (Runs("execute_sql") /\ ~last'.ok) =>
              /\ state'["attempt"] = attempt + 1
              /\ state'["attempt"] <= state'["max_attempts"] => pc' = "analyze_error"
        /\ Runs("analyze_error") => pc' = "generate_sql" ]_vars

\* generate_sql is due after a rejected candidate with the attempts used up.
C10_Witness ==
    /\ last = [node |-> "validate_sql", ok |-> FALSE]
    /\ pc = "generate_sql"
    /\ attempt > max_attempts + 1
    /\ count["analyze_error"] >= 1

\* The run started as a fresh run: attempt 1 (or none given), empty histories.
FreshRun ==
    /\ Get(input, "attempt", 1) = 1
    /\ Get(input, "previous_errors", <<>>) = <<>>
    /\ Get(input, "previous_queries", <<>>) = <<>>

\* C11: in a fresh run attempt = 1 + len(previous_errors) in every state, and a
\* run that ends in format_results after k failed candidates (every candidate
\* but the last) has attempt = k + 1 and both histories of length k.
C11_AttemptCountsErrors ==
    FreshRun =>
        /\ attempt = 1 + Len(previous_errors)
        /\ last.node = "format_results" =>
              /\ attempt = count["generate_sql"]
              /\ Len(previous_queries) = count["generate_sql"] - 1
              /\ Len(previous_errors) = count["generate_sql"] - 1

\* The third candidate succeeded after a rejected one and a failed execution.
C11_Witness ==
    /\ FreshRun
    /\ last.node = "format_results"
    /\ count["generate_sql"] = 3
    /\ attempt = 3
    /\ SyntaxEntries # {}
    /\ ExecutionEntries # {}

AllExecutionsFailed ==
    /\ SyntaxEntries = {}
    /\ count["execute_sql"] = Len(previous_errors)

C14_MissingDatabase ==
    [][ (~db_exists /\ Get(input, "schema", EmptySchema) = EmptySchema) =>
          /\ Runs("parse_intent") =>
                /\ state'["schema"] = EmptySchema
                /\ raised' = None
                /\ pc' = "generate_sql"
          /\ Runs("generate_sql") => llm_input'[1].schema = <<>>
          /\ Runs("execute_sql") =>
                LET msg == <<"Database not found: ">> \o db_path
                IN  /\ ~last'.ok
                    /\ state'["execution_error"] = Some(msg)
                    /\ state'["previous_errors"] = Append(previous_errors, msg)
                    /\ state'["previous_queries"] =
                           Append(previous_queries, state["sql_query"])
                    /\ state'["attempt"] = attempt + 1
                    /\ ~state'["success"]
                    /\ raised' = None
                    /\ pc' \in {"analyze_error", "ask_clarification"}
      ]_vars

\* The first execution of a run without a database has just failed.
C14_Witness ==
    /\ ~db_exists
    /\ last = [node |-> "execute_sql", ok |-> FALSE]
    /\ state["schema"] = EmptySchema
    /\ count["execute_sql"] = 1
    /\ previous_errors = << <<"Database not found: ">> \o db_path >>
    /\ attempt = Get(input, "attempt", 1) + 1

\* C15: a validate_sql step that rejects and an execute_sql step whose executor
\* raises (missing database, sqlite error, any other exception) do not end the
\* run with an exception: the failure is a text in execution_error, appended to
\* previous_errors with the statement appended to previous_queries, attempt is
\* raised by 1, and the next node is the one the routing function picks.  A run
\* is only ever ended by the chat model call or by the engine's step budget.
C15_FailuresAbsorbed ==
    [][ /\ ((Runs("validate_sql") \/ Runs("execute_sql")) /\ ~last'.ok) =>
              /\ raised' = None
              /\ state'["execution_error"] # None
              /\ LET msg == state'["execution_error"][1]
                 IN  /\ IF Runs("validate_sql")
                        THEN msg = <<"Syntax Error:", " ">>
                                   \o validate(state["sql_query"]).error
                        ELSE msg[1] \in {"Database not found: ", "Database error: ",
                                         "Execution error: "}
                     /\ state'["previous_errors"] = Append(previous_errors, msg)
              /\ state'["previous_queries"] =
                     Append(previous_queries, state["sql_query"])
              /\ state'["attempt"] = attempt + 1
              /\ pc' = IF Runs("validate_sql") THEN is_valid_sql(state')
                       ELSE should_retry(state')
              /\ pc' \in Nodes
        /\ raised' # None =>
              raised'[1] \in {"SynthesizerError", "GraphRecursionError"}
      ]_vars

\* An exception of the executor that is no sqlite3.Error was absorbed after a
\* candidate had been rejected, and analyze_error is next.
C15_Witness ==
    /\ last = [node |-> "execute_sql", ok |-> FALSE]
    /\ state["execution_error"][1][1] = "Execution error: "
    /\ SyntaxEntries # {}
    /\ raised = None
    /\ pc = "analyze_error"

\* C16: when the chat model call of generate_sql fails, the run ends there with
\* the exception raised to the caller of invoke: the state dict (attempt and
\* the histories with it) is as it was before the call, and no node runs
\* afterwards, neither generate_sql again nor format_results nor
\* ask_clarification, so no terminal step has set formatted_result.
C16_SynthesizerFaultIsFatal ==
    [][ /\ (Runs("generate_sql") /\ ~last'.ok) =>
              /\ pc' = "RAISED"
              /\ raised' = Some("SynthesizerError")
              /\ state' = state
              /\ Get(state', "attempt", 1) = attempt
              /\ Get(state', "previous_errors", <<>>) = previous_errors
              /\ Get(state', "previous_queries", <<>>) = previous_queries
              /\ count'["format_results"] = 0
              /\ count'["ask_clarification"] = 0
              /\ Get(state', "formatted_result", None) = None
        /\ raised = Some("SynthesizerError") => UNCHANGED vars
      ]_vars

\* The chat model failed on the third prompt, after a rejected candidate and an
\* analyzed execution failure.
C16_Witness ==
    /\ raised = Some("SynthesizerError")
    /\ pc = "RAISED"
    /\ count["generate_sql"] = 3
    /\ count["analyze_error"] = 1
    /\ SyntaxEntries # {}
    /\ attempt = Get(input, "attempt", 1) + 2

\* The text is empty or all whitespace.
IsBlank(t) == \A i \in 1..Len(t) : t[i] \in Whitespace

\* The denylisted keywords found in the text, whatever its case, as indices
\* of the denylist.
Denylisted(t) ==
    {k \in 1..Len(dangerous_keywords) :
        \E i \in 1..Len(t) :
            /\ i + Len(dangerous_keywords[k]) - 1 <= Len(t)
            /\ \A j \in 1..Len(dangerous_keywords[k]) :
                   UpperChar(t[i + j - 1]) = dangerous_keywords[k][j]}

Categories ==
    << "TABLE_NOT_FOUND", "COLUMN_NOT_FOUND", "SYNTAX_ERROR", "AMBIGUOUS_COLUMN",
       "TYPE_MISMATCH", "CONSTRAINT_VIOLATION", "FUNCTION_NOT_SUPPORTED" >>

\* The lower-cased text holds the keyword(s) of the k-th category.
Matches(k, low) ==
    CASE k = 1 -> Contains(low, KwNoSuchTable)
      [] k = 2 -> Contains(low, KwNoSuchColumn)
      [] k = 3 -> Contains(low, KwSyntaxError)
      [] k = 4 -> Contains(low, KwAmbiguous)
      [] k = 5 -> Contains(low, KwDatatype) \/ Contains(low, KwTypeMismatch)
      [] k = 6 -> Contains(low, KwConstraint)
      [] k = 7 -> Contains(low, KwFunction) /\ Contains(low, KwDoesNotExist)

\* The categories whose keywords the error text holds, in any case.
Matching(error) ==
    LET low == Lower(error)
    IN  {k \in 1..Len(Categories) : Matches(k, low)}

\* C19: the error_type of an analysis is the first category, in the order
\* table, column, syntax, ambiguous column, type mismatch, constraint,
\* function, whose keyword is in the lower-cased error text, wherever in the
\* text it stands, and UNKNOWN_ERROR when no keyword is in it.
C19_ClassificationOrder ==
    \A n \in 1..Len(calls) :
        calls[n].fn = "analyze_error" =>
            LET hits == Matching(calls[n].error)
            IN  calls[n].result.error_type =
                    IF hits = {} THEN "UNKNOWN_ERROR"
                    ELSE Categories[CHOOSE k \in hits : \A j \in hits : k <= j]

\* An upper-case text and a text that has the keywords of two categories, the
\* later category's first, were classified.
C19_Witness ==
    /\ Len(calls) = 2
    /\ calls[1].fn = "analyze_error"
    /\ calls[1].error = Upper(CategoryTexts[6])
    /\ calls[1].result.error_type = "CONSTRAINT_VIOLATION"
    /\ Matching(calls[2].error) = {1, 2}
    /\ calls[2].result.error_type = "TABLE_NOT_FOUND"

\* C20: analyses with the same error_type have the same suggested_fix, and an
\* analysis of type UNKNOWN_ERROR has the generic suggestion.
C20_SuggestionPerCategory ==
    \A i, j \in 1..Len(calls) :
        (calls[i].fn = "analyze_error" /\ calls[j].fn = "analyze_error") =>
            /\ calls[i].result.error_type = calls[j].result.error_type =>
                  calls[i].result.suggested_fix = calls[j].result.suggested_fix
            /\ calls[i].result.error_type = "UNKNOWN_ERROR" =>
                  calls[i].result.suggested_fix =
                      "Review the error message and SQL query carefully. Consult database documentation if needed."

\* C21: the message of format_results is the no-results sentence for 0 rows,
\* "Query returned 1 row." for 1 row, "Query returned N rows. Displaying first
\* max_rows rows." for N > max_rows, and "Query returned N rows." otherwise.
C21_MessageByRowCount ==
    \A n \in 1..Len(calls) :
        calls[n].fn = "format_results" =>
            LET N == Len(calls[n].results)
                m == calls[n].max_rows
            IN  calls[n].result.message =
                    IF N = 0
                    THEN <<"Query executed successfully but returned no results.">>
                    ELSE IF N = 1 THEN <<"Query returned 1 row.">>
                    ELSE IF m # None /\ N > m[1]
                    THEN <<"Query returned ">> \o IntToText(N)
                         \o <<" rows. Displaying first ">> \o IntToText(m[1])
                         \o <<" rows.">>
                    ELSE <<"Query returned ">> \o IntToText(N) \o <<" rows.">>

\* C22: for N rows and any max_rows the result of format_results has the
\* fields row_count, message, data and truncated, with row_count = N, data the
\* first min(N, max_rows) rows in order (all rows without a max_rows), and
\* truncated true exactly when N > max_rows.
C22_FormattedFields ==
    \A n \in 1..Len(calls) :
        calls[n].fn = "format_results" =>
            LET rows == calls[n].results
                N    == Len(rows)
                m    == calls[n].max_rows
                r    == calls[n].result
            IN  /\ {"row_count", "message", "data", "truncated"} \subseteq DOMAIN r
                /\ r.row_count = N
                /\ r.data = IF m = None THEN rows ELSE SubSeq(rows, 1, Min(N, m[1]))
                /\ r.truncated <=> (m # None /\ N > m[1])

\* The sessions SQLExecutor.execute opened so far.
ExecutorSessions == { i \in 1..Len(sessions) : sessions[i].by = "executor" }

\* C23: every call of SQLExecutor.execute that opens a session closes it
\* before the call returns or fails: once execute_sql has ended, with a result
\* or with an execution error, no session the executor opened is still open.
C23_SessionsClosed ==
    \A i \in ExecutorSessions : ~sessions[i].open

\* C24: every session SQLExecutor.execute opens is read-only, on every call
\* and every attempt of the run, and no step of the workflow changes the
\* database, whatever the statement was.
C24_ReadOnlySessions ==
    /\ \A i \in ExecutorSessions : sessions[i].mode = "ro"
    /\ db_writes = 0

\* Two executions of one run, the later one of a statement that tried to
\* write and was refused by the read-only session.
C24_Witness ==
    /\ Cardinality(ExecutorSessions) >= 2
    /\ last.node = "execute_sql"
    /\ state["execution_error"]
         = Some(<<"Database error: ", "attempt to write a readonly database">>)

\* The fields parse_intent initialises, with the values it gives them.
ParseIntentDefaults ==
    [attempt          |-> 1,
     max_attempts     |-> 3,
     previous_errors  |-> <<>>,
     previous_queries |-> <<>>,
     success          |-> FALSE]

\* C25: parse_intent gives attempt, max_attempts, previous_queries,
\* previous_errors and success their defaults only where the incoming state
\* lacks them and leaves the ones the caller supplied unchanged; a max_attempts
\* the caller supplied keeps its value through the run and is the one the
\* routing after execute_sql compares attempt with.
C25_InitialisesAbsentFields ==
    [][ /\ Runs("parse_intent") =>
            \A k \in DOMAIN ParseIntentDefaults :
                state'[k] = IF k \in DOMAIN state THEN state[k]
                            ELSE ParseIntentDefaults[k]
        /\ "max_attempts" \in DOMAIN input =>
            /\ "max_attempts" \in DOMAIN state'
            /\ state'["max_attempts"] = input["max_attempts"]
        /\ (Runs("execute_sql") /\ ~state'["success"]) =>
            pc' = IF state'["attempt"] <= Get(input, "max_attempts", 3)
                  THEN "analyze_error" ELSE "ask_clarification" ]_vars

\* A run that entered with attempt 2 and max_attempts 2 and was sent to
\* ask_clarification by the caller's ceiling after one failed execution.
C25_Witness ==
    /\ "attempt" \in DOMAIN input
    /\ input["attempt"] = 2
    /\ input["max_attempts"] = 2
    /\ last.node = "execute_sql"
    /\ state["attempt"] = 3
    /\ state["max_attempts"] = 2
    /\ pc = "ask_clarification"

\* The caller passed a schema that is not empty.
SchemaSupplied == Get(input, "schema", EmptySchema) # EmptySchema

\* C26: within one run get_schema() is called at most once, by parse_intent
\* only, and not at all when the caller supplied a non-empty schema; no later
\* step changes the schema in the state, and every generate_sql of the run
\* puts the same schema into the prompt.
C26_SchemaFetchedOnce ==
    [][ /\ schema_fetches' <= 1
        /\ schema_fetches' # schema_fetches => Runs("parse_intent")
        /\ SchemaSupplied => schema_fetches' = 0 /\ state'["schema"] = input["schema"]
        /\ "schema" \in DOMAIN state =>
              state'["schema"] = state["schema"] \/ Runs("parse_intent")
        /\ (Runs("generate_sql") /\ raised' = None) =>
              /\ llm_input'[1].schema = schema_str(state["schema"])
              /\ llm_input # None => llm_input'[1].schema = llm_input[1].schema
      ]_vars

\* A run that fetched the schema once and is past its second generate_sql.
C26_Witness ==
    /\ schema_fetches = 1
    /\ count["generate_sql"] >= 2
    /\ llm_input # None
    /\ llm_input[1].schema = schema_str(SeededSchema)

\* C27: the workflow created for db_path reads that database only, in the
\* schema fetch and in every execution of its runs, whatever other workflows
\* are created before or during a run; so the fetch and the executions of one
\* run all target one database.
C27_OwnDatabase ==
    \A i \in 1..Len(sessions) : sessions[i].path = db_path

\* C28: once attempt exceeds max_attempts in a run that started afresh and has
\* not succeeded, neither generate_sql nor execute_sql runs again.
C28_ExhaustedStops ==
    [][ (FreshRun /\ attempt > max_attempts /\ ~success) =>
            ~Runs("generate_sql") /\ ~Runs("execute_sql") ]_vars

\* C29: the generate_sql that follows analyze_error passes to the chat model an
\* error context that contains the annotated execution_error analyze_error
\* left in the state (the error with its type, suggestion and problem area).
C29_AnnotationReachesPrompt ==
    [][ (Runs("generate_sql") /\ last.node = "analyze_error") =>
            Contains(llm_input'[1].error_context, state["execution_error"][1])
      ]_vars

\* C30: a validate_sql that accepts the statement sets execution_error to
\* None, whatever an earlier execute_sql or analyze_error left there, and the
\* run goes on to execute_sql; a validate_sql that rejects it sets
\* execution_error to "Syntax Error: " followed by the validator's message and
\* success to false.
C30_ValidationSetsError ==
    [][ Runs("validate_sql") =>
            LET v == validate(state["sql_query"])
            IN  IF v.is_valid
                THEN /\ state'["execution_error"] = None
                     /\ pc' = "execute_sql"
                ELSE /\ state'["execution_error"]
                          = Some(<<"Syntax Error:", " ">> \o v.error)
                     /\ state'["success"] = FALSE ]_vars

\* A statement accepted by validate_sql after an earlier one failed in
\* execute_sql and was annotated by analyze_error.
C30_Witness ==
    /\ last = [node |-> "validate_sql", ok |-> TRUE]
    /\ count["analyze_error"] >= 1
    /\ state["execution_error"] = None
    /\ pc = "execute_sql"

\* C31: analyze_error changes execution_error only: attempt,
\* previous_queries, previous_errors, sql_query, success, user_query,
\* max_attempts and every other field keep their values, and the node that
\* runs next is generate_sql.
C31_AnalyzeErrorFrame ==
    [][ Runs("analyze_error") =>
            /\ DOMAIN state' = DOMAIN state
            /\ {"attempt", "previous_queries", "previous_errors", "sql_query",
                "success", "user_query", "max_attempts"} \subseteq DOMAIN state
            /\ \A k \in DOMAIN state \ {"execution_error"} : state'[k] = state[k]
            /\ pc' = "generate_sql" ]_vars

\* analyze_error has just annotated the error of a failed execution.
C31_Witness ==
    /\ last.node = "analyze_error"
    /\ pc = "generate_sql"
    /\ Contains(state["execution_error"][1], <<"Error Type: ">>)
    /\ state["previous_errors"] # <<>>

\* The statements generate_sql can store: the answers of the chat model, cleaned.
CleanedResponses == { clean_sql(c) : c \in Responses }

\* The first place at which pat occurs in t (0 when it does not occur).
Position(t, pat) ==
    LET s    == t
        p    == pat
        hits == { i \in 1..(Len(s) - Len(p) + 1) :
                    \A j \in 1..Len(p) : s[i + j - 1] = p[j] }
    IN  IF hits = {} THEN 0 ELSE CHOOSE i \in hits : \A h \in hits : i <= h

\* The lines of the error context that report the i-th failure.
AttemptBlock(i) ==
    <<"\n", "Attempt ">> \o IntToText(i) \o <<":", "\n", "SQL: ">>
    \o previous_queries[i] \o <<"\n", "Error: ">> \o previous_errors[i] \o <<"\n">>

\* C32: the error context generate_sql passes to the chat model is empty when
\* the histories are empty; otherwise it reports every pair of
\* previous_queries and previous_errors, each statement with the error it
\* produced, in the order of the failures, and ends with the request to fix
\* them. A generate_sql that returns replaces sql_query and changes neither
\* attempt nor the histories.
C32_ErrorContext ==
    [][ Runs("generate_sql") =>
            LET ctx == llm_input'[1].error_context
                n   == Len(previous_errors)
            IN  /\ Len(previous_queries) = n
                /\ n = 0 => ctx = <<>>
                /\ n > 0 =>
                     /\ Position(ctx, AttemptBlock(1)) > 0
                     /\ \A i \in 1..(n - 1) :
                           Position(ctx, AttemptBlock(i))
                              < Position(ctx, AttemptBlock(i + 1))
                     /\ ctx[Len(ctx)] = "Please fix these issues in your new query."
                /\ raised' = None =>
                     /\ state'["sql_query"] \in CleanedResponses
                     /\ DOMAIN state' = DOMAIN state \cup {"sql_query"}
                     /\ \A k \in DOMAIN state \ {"sql_query"} :
                           state'[k] = state[k]
      ]_vars

\* A generate_sql that was given the two failures before it.
C32_Witness ==
    /\ last.node = "generate_sql"
    /\ Len(previous_errors) = 2
    /\ llm_input # None
    /\ Position(llm_input[1].error_context, AttemptBlock(1)) > 0
    /\ Position(llm_input[1].error_context, AttemptBlock(1))
         < Position(llm_input[1].error_context, AttemptBlock(2))

\* s is an initial part of t.
IsPrefix(s, t) == Len(s) <= Len(t) /\ \A i \in 1..Len(s) : s[i] = t[i]

\* C33: the histories only grow at their ends: in every step the old
\* previous_queries and previous_errors are initial parts of the new ones; a
\* validate_sql or execute_sql that fails appends exactly one entry to each,
\* the sql_query that failed and the error it produced, and every other step
\* leaves both as they are.
C33_AppendOnlyHistories ==
    [][ LET q  == Get(state, "previous_queries", <<>>)
            e  == Get(state, "previous_errors", <<>>)
            q2 == Get(state', "previous_queries", <<>>)
            e2 == Get(state', "previous_errors", <<>>)
            failed == (Runs("validate_sql") \/ Runs("execute_sql")) /\ ~last'.ok
        IN  /\ IsPrefix(q, q2) /\ IsPrefix(e, e2)
            /\ failed =>
                 /\ q2 = q \o <<state["sql_query"]>>
                 /\ e2 = e \o <<state'["execution_error"][1]>>
                 /\ Runs("validate_sql") =>
                      e2[Len(e2)] = <<"Syntax Error:", " ">>
                                      \o validate(state["sql_query"]).error
            /\ ~failed => q2 = q /\ e2 = e ]_vars

\* A statement has just failed in execute_sql after an earlier candidate was
\* rejected by validate_sql: the histories hold both, in that order.
C33_Witness ==
    /\ last = [node |-> "execute_sql", ok |-> FALSE]
    /\ Len(previous_errors) = 2
    /\ StartsWith(previous_errors[1], <<"Syntax Error:">>)
    /\ previous_errors[2] = state["execution_error"][1]
    /\ previous_queries[2] = state["sql_query"]
    /\ previous_queries[1] # previous_queries[2]

\* The formatted result a state dict holds, None when it has none.
formatted_result_of(st) == Get(st, "formatted_result", None)

\* C34: formatted_result is written by format_results and ask_clarification
\* only: it is unset after every parse_intent, generate_sql, validate_sql,
\* execute_sql and analyze_error, and it is set in the final state of every
\* run that ends without a fatal fault.
C34_FormattedResultAtEnd ==
    [][ /\ (\E n \in Nodes \ {"format_results", "ask_clarification"} : Runs(n))
             => formatted_result_of(state') = None
        /\ formatted_result_of(state') # formatted_result_of(state)
             => Runs("format_results") \/ Runs("ask_clarification")
        /\ pc' = "END" => formatted_result_of(state') # None ]_vars

\* A run that failed twice and ended with the clarification message.
C34_Witness ==
    /\ pc = "END"
    /\ last.node = "ask_clarification"
    /\ count["execute_sql"] >= 2
    /\ formatted_result_of(state) # None
    /\ formatted_result_of(input) = None

\* How many terminal steps the run has taken.
TerminalSteps == count["format_results"] + count["ask_clarification"]

\* C35: a run that ends without a fatal fault has taken exactly one terminal
\* step, once: format_results exactly when success is true in the final
\* state, ask_clarification exactly when it is false; before its end a run
\* has taken none, and no step follows the terminal one.
C35_OneTerminalStep ==
    [][ /\ pc # "END"
        /\ TerminalSteps = 0
        /\ pc' = "END" =>
             /\ count'["format_results"] + count'["ask_clarification"] = 1
             /\ count'["format_results"] = 1 <=> state'["success"]
             /\ count'["ask_clarification"] = 1 <=> ~state'["success"] ]_vars

\* A run that ended in format_results after one failed execution.
C35_Witness ==
    /\ pc = "END"
    /\ TerminalSteps = 1
    /\ last.node = "format_results"
    /\ state["success"]
    /\ count["analyze_error"] = 1

\* C36: analyze_error is entered only directly after an execute_sql that
\* failed, with attempt <= max_attempts; in a run that started with attempt 1
\* it runs at most max_attempts - 1 times, however many statements
\* validate_sql rejects in between.
C36_AnalysesBounded ==
    /\ pc = "analyze_error" =>
         /\ last = [node |-> "execute_sql", ok |-> FALSE]
         /\ attempt <= max_attempts
    /\ Get(input, "attempt", 1) = 1 =>
         count["analyze_error"] <= max_attempts - 1

\* A run with max_attempts 3 in which a failed execution was analysed, the
\* next statement was rejected by validate_sql, and the execution after that
\* failed and led to ask_clarification: one analysis, three failures.
C36_Witness ==
    /\ Get(input, "attempt", 1) = 1
    /\ max_attempts = 3
    /\ count["analyze_error"] = 1
    /\ Len(previous_errors) = 3
    /\ StartsWith(previous_errors[2], <<"Syntax Error:">>)
    /\ last = [node |-> "execute_sql", ok |-> FALSE]
    /\ pc = "ask_clarification"

\* The beginnings of the messages SQLExecutor.execute raises.
ExecutorPrefixes == {"Database not found: ", "Database error: ", "Execution error: "}

\* C37: in the final state of a run that ended in ask_clarification,
\* execution_error is the message of the last failed execution as the
\* executor raised it, without the lines analyze_error adds; it is the last
\* entry of previous_errors, and sql_query is the last entry of
\* previous_queries.
C37_FinalStateAfterClarification ==
    (pc = "END" /\ last.node = "ask_clarification") =>
        /\ state["execution_error"] # None
        /\ state["execution_error"][1][1] \in ExecutorPrefixes
        /\ ~Contains(state["execution_error"][1], <<"Error Type: ">>)
        /\ previous_errors # <<>>
        /\ state["execution_error"][1] = previous_errors[Len(previous_errors)]
        /\ state["sql_query"] = previous_queries[Len(previous_queries)]

\* A run that ended in ask_clarification after analyze_error had annotated an
\* earlier failure.
C37_Witness ==
    /\ pc = "END"
    /\ last.node = "ask_clarification"
    /\ count["analyze_error"] >= 1
    /\ Len(previous_errors) >= 2
    /\ state["execution_error"][1] = previous_errors[Len(previous_errors)]

\* The category that goes with each kind of problem area.
AreaCategory ==
    [x \in {"Table: ", "Column: ", "Function: "} |->
        CASE x = "Table: "    -> "TABLE_NOT_FOUND"
          [] x = "Column: "   -> "COLUMN_NOT_FOUND"
          [] x = "Function: " -> "FUNCTION_NOT_SUPPORTED"]

\* C38: whenever extract_problem_area returns "Table: X", "Column: X" or
\* "Function: X" for an error text, analyze_error classifies the same text as
\* TABLE_NOT_FOUND, COLUMN_NOT_FOUND or FUNCTION_NOT_SUPPORTED respectively.
C38_ProblemAreaAgrees ==
    \A i, j \in 1..Len(calls) :
        ( /\ calls[i].fn = "extract_problem_area"
          /\ calls[j].fn = "analyze_error"
          /\ calls[i].error = calls[j].error
          /\ calls[i].result # None ) =>
            /\ calls[i].result[1][1] \in DOMAIN AreaCategory
            /\ calls[j].result.error_type = AreaCategory[calls[i].result[1][1]]

====
